---- MODULE Spec2Model ----
(***************************************************************************)
(* Background job execution and result polling of corona.py:               *)
(* run_simulation_callback (launch), SimulationThread (worker),            *)
(* update_simulation_results (poll), the shared cache and the sessions.    *)
(*                                                                         *)
(* Time is counted in tenths of a second: 0.5 s is 5, 30 s is 300.         *)
(***************************************************************************)
EXTENDS Integers, Sequences, FiniteSets, TLC

VARIABLES
    now,            \* wall clock, time.time(), in tenths of a second
    restrict,       \* settings.RESTRICT_TO_PRESET_SCENARIOS
    session,        \* per browser session: thread_id and the variable store
    req,            \* per client: position of its run request in the handler
    resp,           \* the response returned by the step just taken
    threads,        \* the SimulationThread objects, by uuid
    process_pool,   \* process_pool of each process, by process
    cache,          \* common.cache: key -> <<>> or <<value, expiry time>>
    interval        \* per client: the dcc.Interval component on its page

vars == <<now, restrict, session, req, resp, threads, process_pool, cache, interval>>

----------------------------------------------------------------------------
(* Bounds of the model *)

MaxClicks == 1      \* n_clicks of the run button: 0 .. MaxClicks
MaxTime == 7        \* the fine clock of the throttle specification stops here
BurstCalls == 100   \* progress calls of the simulation in the throttle specification
BurstWindow == 2    \* 200 ms

(* Program constants *)

Throttle == 5           \* now - self.last_results > 0.5
ResultsTimeout == 300   \* cache.set(..., timeout=30)
DefaultTimeout == 300   \* cache.set(key, True): the cache's default timeout
PollInterval == 500     \* dcc.Interval(interval=500)
MaxIntervals == 60      \* dcc.Interval(max_intervals=60)
NoThread == 0           \* session.get('thread_id', None) is None
NeverWritten == -1      \* self.last_results = None
MainProcess == 0        \* the process that serves the requests

----------------------------------------------------------------------------
(* Callers *)

Clients == {"a1", "a2", "b1"}   \* connections that send requests
MainClients == {"a1", "b1"}     \* those that send requests under Spec
Sessions == {"A", "B"}          \* browser sessions (flask session)
SessionOf(cl) == IF cl = "b1" THEN "B" ELSE "A"

Days == {2}                     \* values of the simulation-days dropdown
Clicks == 0 .. MaxClicks
Uuids == {1, 2}                 \* SimulationThread objects of one behaviour
Procs == {MainProcess} \cup Uuids

(* The instants at which the clock is read: the start, 0.6 s later, and     *)
(* 30.5 s after the start, when what was written at the start has expired.  *)
ClockTimes == {0, Throttle + 1, Throttle + ResultsTimeout}

(* The variable store of a session, as the simulation reads it. *)
InitVariables == [simulation_days |-> 2, random_seed |-> 0]
VariablesOf(sess) ==
    [simulation_days |-> sess.simulation_days, random_seed |-> sess.random_seed]
VariableSets == [simulation_days : Days \cup {BurstCalls + 1}, random_seed : Clicks]

(* generate_cache_key(simulate_individuals, var_store): deterministic and   *)
(* injective on the variable set.                                           *)
Fingerprint(v) == v.simulation_days * (MaxClicks + 2) + v.random_seed
Fingerprints == {Fingerprint(v) : v \in VariableSets}

----------------------------------------------------------------------------
(* The cache *)

ResultsKey(func_hash) == <<func_hash, "results">>      \* '%s-results'
FinishedKey(func_hash) == <<func_hash, "finished">>    \* '%s-finished'
KillKey(thread_id) == <<"thread", thread_id, "kill">>  \* 'thread-%s-kill'

CacheKeys ==
    {ResultsKey(h) : h \in Fingerprints} \cup {FinishedKey(h) : h \in Fingerprints}
        \cup {KillKey(u) : u \in Uuids}

(* cache.get(key): <<>> for None, <<value>> otherwise. *)
CacheLive(c, t, key) == c[key] # <<>> /\ t < c[key][2]
CacheGet(c, t, key) == IF CacheLive(c, t, key) THEN <<c[key][1]>> ELSE <<>>
(* cache.set(key, value, timeout) *)
CacheSet(c, t, key, value, timeout) == [c EXCEPT ![key] = <<value, t + timeout>>]

----------------------------------------------------------------------------
(* The simulation: simulate_individuals *)

(* The dataset after `day` simulated days of the run with variables v.      *)
Snapshot(v, day) == [variables |-> v, day |-> day]
FinalResult(v) == Snapshot(v, v.simulation_days)
IsFinal(df) == df.day = df.variables.simulation_days

(* simulate_individuals(only_if_in_cache=True): the cached result or None.  *)
CachedResult(c, t, v) == CacheGet(c, t, ResultsKey(Fingerprint(v)))

----------------------------------------------------------------------------
(* Responses *)

(* What a handler returns, and to whom; "none" when the step taken was no   *)
(* return of a handler.                                                     *)
Response(cl, kind, df, disabled, interval_ms, max_intervals) ==
    [to |-> cl, kind |-> kind, df |-> df, disabled |-> disabled,
     interval |-> interval_ms, max_intervals |-> max_intervals]
NoResponse == Response("a1", "none", <<>>, FALSE, 0, 0)
Reused(cl, df) == Response(cl, "reused", <<df>>, FALSE, 0, 0)
ServiceBusy(cl) == Response(cl, "busy", <<>>, FALSE, 0, 0)
Started(cl) == Response(cl, "started", <<>>, FALSE, PollInterval, MaxIntervals)
PreventUpdate(cl) == Response(cl, "prevent_update", <<>>, FALSE, 0, 0)
Results(cl, df, disabled) == Response(cl, "results", <<df>>, disabled, 0, 0)

----------------------------------------------------------------------------
(* The page of a client *)

(* The simulation-output-interval component: absent until a response        *)
(* brings it, then counting its firings in n_intervals from 0.              *)
NoInterval == [mounted |-> FALSE, n_intervals |-> 0, disabled |-> FALSE]
NewInterval == [mounted |-> TRUE, n_intervals |-> 0, disabled |-> FALSE]

----------------------------------------------------------------------------
(* State after construction *)

(* A SimulationThread: its position in run, the fields of the object, the   *)
(* progress of its simulation, and a record of what it did to the cache     *)
(* (writes: cache.set calls on the results key, forced: those with force,   *)
(* written: the dataset of the last one, returned: what step_callback       *)
(* returned last).                                                          *)
NoThreadObject ==
    [pc |-> "unborn", variables |-> InitVariables, func_hash |-> 0,
     last_results |-> NeverWritten, day |-> 0, exit |-> "none",
     writes |-> 0, forced |-> 0, written |-> <<>>, returned |-> <<>>]

InitSession ==
    [thread_id |-> NoThread,
     simulation_days |-> InitVariables.simulation_days,
     random_seed |-> InitVariables.random_seed]

EmptyCache == [k \in CacheKeys |-> <<>>]

(* The cache outlives the server: when a server restricted to the preset    *)
(* scenarios starts, the cache is empty or holds the result that a run of   *)
(* the default scenario has just left.                                      *)
PresetCache ==
    CacheSet(EmptyCache, 0, ResultsKey(Fingerprint(InitVariables)),
             FinalResult(InitVariables), ResultsTimeout)

Init ==
    /\ now = 0
    /\ restrict \in BOOLEAN
    /\ session = [s \in Sessions |-> InitSession]
    /\ req = [cl \in Clients |-> "idle"]
    /\ resp = NoResponse
    /\ threads = [u \in Uuids |-> NoThreadObject]
    /\ process_pool = [p \in Procs |-> {}]
    /\ cache \in IF restrict THEN {EmptyCache, PresetCache} ELSE {EmptyCache}
    /\ interval = [cl \in Clients |-> NoInterval]

Created == {u \in Uuids : threads[u].pc # "unborn"}
Spawning == {cl \in Clients : req[cl] = "spawn"}

----------------------------------------------------------------------------
(* The clock *)

Tick(t) ==
    /\ t \in ClockTimes /\ t > now
    /\ now' = t
    /\ resp' = NoResponse
    /\ UNCHANGED <<restrict, session, req, threads, process_pool, cache>>

----------------------------------------------------------------------------
(* run_simulation_callback *)

(* set_variable('simulation_days', ...); if n_clicks: set_variable(...)     *)
SetRunVariables(sess, n_clicks, simulation_days) ==
    [sess EXCEPT !.simulation_days = simulation_days,
                 !.random_seed = IF n_clicks # 0 THEN n_clicks ELSE @]

(* RunBegin without line 581-582: the cached result is not looked at.       *)
RunBeginNoCacheCheck(cl, n_clicks, simulation_days) ==
    LET s == SessionOf(cl)
        sess == SetRunVariables(session[s], n_clicks, simulation_days)
        existing_thread_id == sess.thread_id
    IN  /\ req[cl] = "idle"
        /\ session' = [session EXCEPT ![s] = sess]
        /\ IF restrict
           THEN /\ resp' = ServiceBusy(cl)
                /\ UNCHANGED <<req, cache>>
           ELSE /\ Cardinality(Created) + Cardinality(Spawning) < Cardinality(Uuids)
                /\ cache' = IF existing_thread_id # NoThread
                            THEN CacheSet(cache, now, KillKey(existing_thread_id),
                                          TRUE, DefaultTimeout)
                            ELSE cache
                /\ req' = [req EXCEPT ![cl] = "spawn"]
                /\ resp' = NoResponse
        /\ UNCHANGED <<now, restrict, threads, process_pool>>

(* RunBegin with lines 584-585 moved before line 580, and the kill signal   *)
(* written whatever the outcome.                                            *)
RunBeginRestrictFirst(cl, n_clicks, simulation_days) ==
    LET s == SessionOf(cl)
        sess == SetRunVariables(session[s], n_clicks, simulation_days)
        df == CachedResult(cache, now, VariablesOf(sess))
        existing_thread_id == sess.thread_id
    IN  /\ req[cl] = "idle"
        /\ session' = [session EXCEPT ![s] = sess]
        /\ IF restrict
           THEN /\ resp' = ServiceBusy(cl)
                /\ UNCHANGED <<req, cache>>
           ELSE IF df # <<>>
           THEN /\ resp' = Reused(cl, df[1])
                /\ UNCHANGED <<req, cache>>
           ELSE /\ Cardinality(Created) + Cardinality(Spawning) < Cardinality(Uuids)
                /\ cache' = IF existing_thread_id # NoThread
                            THEN CacheSet(cache, now, KillKey(existing_thread_id),
                                          TRUE, DefaultTimeout)
                            ELSE cache
                /\ req' = [req EXCEPT ![cl] = "spawn"]
                /\ resp' = NoResponse
        /\ UNCHANGED <<now, restrict, threads, process_pool>>

(* RunBegin with a cancellation that is not per session: lines 587-589     *)
(* write the kill signal of every job created so far.                       *)
RunBeginKillsAll(cl, n_clicks, simulation_days) ==
    LET s == SessionOf(cl)
        sess == SetRunVariables(session[s], n_clicks, simulation_days)
        df == CachedResult(cache, now, VariablesOf(sess))
    IN  /\ req[cl] = "idle"
        /\ session' = [session EXCEPT ![s] = sess]
        /\ IF df # <<>>
           THEN /\ resp' = Reused(cl, df[1])
                /\ UNCHANGED <<req, cache>>
           ELSE IF restrict
           THEN /\ resp' = ServiceBusy(cl)
                /\ UNCHANGED <<req, cache>>
           ELSE /\ Cardinality(Created) + Cardinality(Spawning) < Cardinality(Uuids)
                /\ cache' = [k \in CacheKeys |->
                               IF \E u \in Created : k = KillKey(u)
                               THEN <<TRUE, now + DefaultTimeout>>
                               ELSE cache[k]]
                /\ req' = [req EXCEPT ![cl] = "spawn"]
                /\ resp' = NoResponse
        /\ UNCHANGED <<now, restrict, threads, process_pool>>

(* RunBegin that enforces one live worker per fingerprint: a request whose  *)
(* fingerprint a created worker that has not exited already has is answered *)
(* with the busy message.                                                   *)
RunBeginOnePerFingerprint(cl, n_clicks, simulation_days) ==
    LET s == SessionOf(cl)
        sess == SetRunVariables(session[s], n_clicks, simulation_days)
        df == CachedResult(cache, now, VariablesOf(sess))
        existing_thread_id == sess.thread_id
        live == {u \in Created : /\ threads[u].pc # "exited"
                                 /\ threads[u].variables = VariablesOf(sess)}
    IN  /\ req[cl] = "idle"
        /\ session' = [session EXCEPT ![s] = sess]
        /\ IF df # <<>>
           THEN /\ resp' = Reused(cl, df[1])
                /\ UNCHANGED <<req, cache>>
           ELSE IF restrict \/ live # {}
           THEN /\ resp' = ServiceBusy(cl)
                /\ UNCHANGED <<req, cache>>
           ELSE /\ Cardinality(Created) + Cardinality(Spawning) < Cardinality(Uuids)
                /\ cache' = IF existing_thread_id # NoThread
                            THEN CacheSet(cache, now, KillKey(existing_thread_id),
                                          TRUE, DefaultTimeout)
                            ELSE cache
                /\ req' = [req EXCEPT ![cl] = "spawn"]
                /\ resp' = NoResponse
        /\ UNCHANGED <<now, restrict, threads, process_pool>>

(* RunBegin without lines 587-589: the job the session is bound to gets no  *)
(* kill signal.                                                             *)
RunBeginNoKill(cl, n_clicks, simulation_days) ==
    LET s == SessionOf(cl)
        sess == SetRunVariables(session[s], n_clicks, simulation_days)
        df == CachedResult(cache, now, VariablesOf(sess))
    IN  /\ req[cl] = "idle"
        /\ session' = [session EXCEPT ![s] = sess]
        /\ IF df # <<>>
           THEN /\ resp' = Reused(cl, df[1])
                /\ UNCHANGED <<req, cache>>
           ELSE IF restrict
           THEN /\ resp' = ServiceBusy(cl)
                /\ UNCHANGED <<req, cache>>
           ELSE /\ Cardinality(Created) + Cardinality(Spawning) < Cardinality(Uuids)
                /\ cache' = cache
                /\ req' = [req EXCEPT ![cl] = "spawn"]
                /\ resp' = NoResponse
        /\ UNCHANGED <<now, restrict, threads, process_pool>>

(* Lines 573-589: up to and including the kill signal. A request that is    *)
(* going to create a process waits at "spawn" for the second half.          *)
RunBegin(cl, n_clicks, simulation_days) ==
    LET s == SessionOf(cl)
        sess == SetRunVariables(session[s], n_clicks, simulation_days)
        df == CachedResult(cache, now, VariablesOf(sess))
        existing_thread_id == sess.thread_id
    IN  /\ req[cl] = "idle"
        /\ session' = [session EXCEPT ![s] = sess]
        /\ IF df # <<>>
           THEN /\ resp' = Reused(cl, df[1])
                /\ UNCHANGED <<req, cache>>
           ELSE IF restrict
           THEN /\ resp' = ServiceBusy(cl)
                /\ UNCHANGED <<req, cache>>
           ELSE /\ Cardinality(Created) + Cardinality(Spawning) < Cardinality(Uuids)
                /\ cache' = IF existing_thread_id # NoThread
                            THEN CacheSet(cache, now, KillKey(existing_thread_id),
                                          TRUE, DefaultTimeout)
                            ELSE cache
                /\ req' = [req EXCEPT ![cl] = "spawn"]
                /\ resp' = NoResponse
        /\ UNCHANGED <<now, restrict, threads, process_pool>>

(* SimulationThread.__init__ and start *)
NewThread(variables) ==
    [NoThreadObject EXCEPT !.pc = "started", !.variables = variables]

(* RunSpawn without line 592: the session is not bound to the new job.      *)
RunSpawnNoBind(cl) ==
    LET s == SessionOf(cl)
        uuid == Cardinality(Created) + 1
    IN  /\ req[cl] = "spawn"
        /\ uuid \in Uuids
        /\ threads' = [threads EXCEPT ![uuid] = NewThread(VariablesOf(session[s]))]
        /\ req' = [req EXCEPT ![cl] = "idle"]
        /\ resp' = Started(cl)
        /\ UNCHANGED <<now, restrict, session, process_pool, cache>>

(* Lines 591-598: create the process, bind the session, start, answer.      *)
RunSpawn(cl) ==
    LET s == SessionOf(cl)
        uuid == Cardinality(Created) + 1
    IN  /\ req[cl] = "spawn"
        /\ uuid \in Uuids
        /\ threads' = [threads EXCEPT ![uuid] = NewThread(VariablesOf(session[s]))]
        /\ session' = [session EXCEPT ![s].thread_id = uuid]
        /\ req' = [req EXCEPT ![cl] = "idle"]
        /\ resp' = Started(cl)
        /\ UNCHANGED <<now, restrict, process_pool, cache>>

----------------------------------------------------------------------------
(* SimulationThread.run *)

(* The guard with >= for >: a write exactly 0.5 s after the last one.       *)
AcceptsWriteAtHalfSecond(last_results, t, force) ==
    force \/ last_results = NeverWritten \/ t - last_results >= Throttle

(* The guard without `force or`.                                            *)
AcceptsWriteUnforced(last_results, t, force) ==
    last_results = NeverWritten \/ t - last_results > Throttle

(* The guard of step_callback, line 498. *)
AcceptsWrite(last_results, t, force) ==
    force \/ last_results = NeverWritten \/ t - last_results > Throttle

(* step_callback(df, force), lines 496-503: the cache and the thread after  *)
(* the call.                                                                *)
CallbackCache(u, df, force) ==
    IF AcceptsWrite(threads[u].last_results, now, force)
    THEN CacheSet(cache, now, ResultsKey(threads[u].func_hash), df, ResultsTimeout)
    ELSE cache

CallbackThread(th, df, force) ==
    LET called == [th EXCEPT !.returned = <<TRUE>>]
    IN  IF AcceptsWrite(th.last_results, now, force)
        THEN [called EXCEPT !.last_results = now,
                            !.writes = @ + 1,
                            !.forced = IF force THEN @ + 1 ELSE @,
                            !.written = <<df>>]
        ELSE called

(* WorkerBegin with generate_cache_key(simulate_individuals) and no          *)
(* var_store, as at line 530: the hash of the default variables, not of     *)
(* self.variables.                                                          *)
WorkerBeginDefaultHash(u) ==
    /\ threads[u].pc = "started"
    /\ process_pool' = [process_pool EXCEPT ![u] = @ \cup {u}]
    /\ threads' = [threads EXCEPT ![u].pc = "simulating",
                                  ![u].func_hash = Fingerprint(InitVariables),
                                  ![u].last_results = NeverWritten]
    /\ resp' = NoResponse
    /\ UNCHANGED <<now, restrict, session, req, cache>>

(* Lines 487-494: register, compute the hash, clear last_results.           *)
WorkerBegin(u) ==
    /\ threads[u].pc = "started"
    /\ process_pool' = [process_pool EXCEPT ![u] = @ \cup {u}]
    /\ threads' = [threads EXCEPT ![u].pc = "simulating",
                                  ![u].func_hash = Fingerprint(threads[u].variables),
                                  ![u].last_results = NeverWritten]
    /\ resp' = NoResponse
    /\ UNCHANGED <<now, restrict, session, req, cache>>

(* The simulation advances one day, not its last, and reports it:          *)
(* step_callback(df).                                                       *)
SimStep(u) ==
    LET day == threads[u].day + 1
        df == Snapshot(threads[u].variables, day)
    IN  /\ threads[u].pc = "simulating"
        /\ day < threads[u].variables.simulation_days
        /\ cache' = CallbackCache(u, df, FALSE)
        /\ threads' = [threads EXCEPT
                         ![u] = [CallbackThread(threads[u], df, FALSE) EXCEPT !.day = day]]
        /\ resp' = NoResponse
        /\ UNCHANGED <<now, restrict, session, req, process_pool>>

(* SimReturn that publishes, with force, the dataset the simulation started *)
(* from instead of the one it returned.                                     *)
SimReturnPublishesStart(u) ==
    LET df == Snapshot(threads[u].variables, 0)
    IN  /\ threads[u].pc = "simulating"
        /\ threads[u].day + 1 = threads[u].variables.simulation_days
        /\ cache' = CallbackCache(u, df, TRUE)
        /\ threads' = [threads EXCEPT
                         ![u] = [CallbackThread(threads[u], df, TRUE) EXCEPT
                                   !.pc = "finishing", !.exit = "returned",
                                   !.day = threads[u].variables.simulation_days]]
        /\ resp' = NoResponse
        /\ UNCHANGED <<now, restrict, session, req, process_pool>>

(* SimReturn with step_callback(df) for step_callback(df, force=True).      *)
SimReturnUnforced(u) ==
    LET df == FinalResult(threads[u].variables)
    IN  /\ threads[u].pc = "simulating"
        /\ threads[u].day + 1 = threads[u].variables.simulation_days
        /\ cache' = CallbackCache(u, df, FALSE)
        /\ threads' = [threads EXCEPT
                         ![u] = [CallbackThread(threads[u], df, FALSE) EXCEPT
                                   !.pc = "finishing", !.exit = "returned",
                                   !.day = df.day]]
        /\ resp' = NoResponse
        /\ UNCHANGED <<now, restrict, session, req, process_pool>>

(* The simulation advances its last day and returns; lines 509-511:         *)
(* step_callback(df, force=True).                                           *)
SimReturn(u) ==
    LET df == FinalResult(threads[u].variables)
    IN  /\ threads[u].pc = "simulating"
        /\ threads[u].day + 1 = threads[u].variables.simulation_days
        /\ cache' = CallbackCache(u, df, TRUE)
        /\ threads' = [threads EXCEPT
                         ![u] = [CallbackThread(threads[u], df, TRUE) EXCEPT
                                   !.pc = "finishing", !.exit = "returned",
                                   !.day = df.day]]
        /\ resp' = NoResponse
        /\ UNCHANGED <<now, restrict, session, req, process_pool>>

(* SimInterrupt with the forced publish of line 511 on the cancellation     *)
(* path too: what the simulation had reached is published.                  *)
SimInterruptPublishes(u) ==
    LET df == Snapshot(threads[u].variables, threads[u].day)
    IN  /\ threads[u].pc = "simulating"
        /\ CacheGet(cache, now, KillKey(u)) # <<>>
        /\ cache' = CallbackCache(u, df, TRUE)
        /\ threads' = [threads EXCEPT
                         ![u] = [CallbackThread(threads[u], df, TRUE) EXCEPT
                                   !.pc = "finishing", !.exit = "interrupted"]]
        /\ resp' = NoResponse
        /\ UNCHANGED <<now, restrict, session, req, process_pool>>

(* The simulation observes its kill signal and raises ExecutionInterrupted; *)
(* lines 507-508.                                                           *)
SimInterrupt(u) ==
    /\ threads[u].pc = "simulating"
    /\ CacheGet(cache, now, KillKey(u)) # <<>>
    /\ threads' = [threads EXCEPT ![u].pc = "finishing", ![u].exit = "interrupted"]
    /\ resp' = NoResponse
    /\ UNCHANGED <<now, restrict, session, req, process_pool, cache>>

(* SimCrash as it would be with lines 513-516 in a finally clause: the      *)
(* failed worker goes on to write the finished flag.                        *)
SimCrashMarksFinished(u) ==
    /\ threads[u].pc = "simulating"
    /\ threads' = [threads EXCEPT ![u].pc = "finishing", ![u].exit = "crashed"]
    /\ resp' = NoResponse
    /\ UNCHANGED <<now, restrict, session, req, process_pool, cache>>

(* The simulation fails with another exception: it leaves run at line 506,  *)
(* past lines 513 and 516.                                                  *)
SimCrash(u) ==
    /\ threads[u].pc = "simulating"
    /\ threads' = [threads EXCEPT ![u].pc = "exited", ![u].exit = "crashed"]
    /\ resp' = NoResponse
    /\ UNCHANGED <<now, restrict, session, req, process_pool, cache>>

(* WorkerFinish with a cache whose default timeout is 300 s, not 30 s.      *)
WorkerFinishLongLived(u) ==
    /\ threads[u].pc = "finishing"
    /\ cache' = CacheSet(cache, now, FinishedKey(threads[u].func_hash), TRUE,
                         10 * DefaultTimeout)
    /\ threads' = [threads EXCEPT ![u].pc = "cleanup"]
    /\ resp' = NoResponse
    /\ UNCHANGED <<now, restrict, session, req, process_pool>>

(* Line 513: cache.set('%s-finished' % func_hash, True)                     *)
WorkerFinish(u) ==
    /\ threads[u].pc = "finishing"
    /\ cache' = CacheSet(cache, now, FinishedKey(threads[u].func_hash), TRUE,
                         DefaultTimeout)
    /\ threads' = [threads EXCEPT ![u].pc = "cleanup"]
    /\ resp' = NoResponse
    /\ UNCHANGED <<now, restrict, session, req, process_pool>>

(* Line 516: del process_pool[self.ident]                                   *)
WorkerCleanup(u) ==
    /\ threads[u].pc = "cleanup"
    /\ process_pool' = [process_pool EXCEPT ![u] = @ \ {u}]
    /\ threads' = [threads EXCEPT ![u].pc = "exited"]
    /\ resp' = NoResponse
    /\ UNCHANGED <<now, restrict, session, req, cache>>

----------------------------------------------------------------------------
(* update_simulation_results *)

(* PollResponse without lines 526-528: the binding is not looked at.        *)
PollResponseNoBinding(cl) ==
    LET sess == session[SessionOf(cl)]
        func_hash == Fingerprint(VariablesOf(sess))
        df == CacheGet(cache, now, ResultsKey(func_hash))
        finished == CacheGet(cache, now, FinishedKey(func_hash))
    IN  IF df = <<>> THEN PreventUpdate(cl)
        ELSE Results(cl, df[1], finished # <<>> /\ finished[1])

(* PollResponse that stops the polling as soon as there is a result.        *)
PollResponseDoneOnResults(cl) ==
    LET sess == session[SessionOf(cl)]
        func_hash == Fingerprint(VariablesOf(sess))
        df == CacheGet(cache, now, ResultsKey(func_hash))
    IN  IF sess.thread_id = NoThread THEN PreventUpdate(cl)
        ELSE IF df = <<>> THEN PreventUpdate(cl)
        ELSE Results(cl, df[1], TRUE)

(* Lines 526-545: what the handler answers.                                 *)
PollResponse(cl) ==
    LET sess == session[SessionOf(cl)]
        func_hash == Fingerprint(VariablesOf(sess))
        df == CacheGet(cache, now, ResultsKey(func_hash))
        finished == CacheGet(cache, now, FinishedKey(func_hash))
    IN  IF sess.thread_id = NoThread THEN PreventUpdate(cl)
        ELSE IF df = <<>> THEN PreventUpdate(cl)
        ELSE Results(cl, df[1], finished # <<>> /\ finished[1])

(* update_simulation_results that drops the thread_id of the session once   *)
(* it has reported the computation finished.                                *)
UpdateResultsUnbinds(cl) ==
    /\ resp' = PollResponse(cl)
    /\ session' = IF PollResponse(cl).kind = "results" /\ PollResponse(cl).disabled
                  THEN [session EXCEPT ![SessionOf(cl)].thread_id = NoThread]
                  ELSE session
    /\ UNCHANGED <<now, restrict, req, threads, process_pool, cache>>

update_simulation_results(cl) ==
    /\ resp' = PollResponse(cl)
    /\ UNCHANGED <<now, restrict, session, req, threads, process_pool, cache>>

----------------------------------------------------------------------------
(* The system: the handlers under requests sent in any order, and the       *)
(* workers. The pages of the callers are not followed.                      *)

Next ==
    \/ \E t \in ClockTimes : Tick(t) /\ UNCHANGED interval
    \/ \E cl \in MainClients, n \in Clicks, sd \in Days : RunBegin(cl, n, sd) /\ UNCHANGED interval
    \/ \E cl \in MainClients : RunSpawn(cl) /\ UNCHANGED interval
    \/ \E cl \in MainClients : update_simulation_results(cl) /\ UNCHANGED interval
    \/ \E u \in Uuids : WorkerBegin(u) /\ UNCHANGED interval
    \/ \E u \in Uuids : SimStep(u) /\ UNCHANGED interval
    \/ \E u \in Uuids : SimReturn(u) /\ UNCHANGED interval
    \/ \E u \in Uuids : SimInterrupt(u) /\ UNCHANGED interval
    \/ \E u \in Uuids : SimCrash(u) /\ UNCHANGED interval
    \/ \E u \in Uuids : WorkerFinish(u) /\ UNCHANGED interval
    \/ \E u \in Uuids : WorkerCleanup(u) /\ UNCHANGED interval

Spec == Init /\ [][Next]_vars

----------------------------------------------------------------------------
(* One worker under a fine clock: a simulation that reports BurstCalls days *)
(* before its last, started for session A, with the clock read every tenth  *)
(* of a second.                                                             *)

BurstVariables == [simulation_days |-> BurstCalls + 1, random_seed |-> 0]

InitThrottle ==
    /\ now = 0
    /\ restrict = FALSE
    /\ session = [s \in Sessions |->
                    IF s = "A"
                    THEN [InitSession EXCEPT !.thread_id = 1,
                                             !.simulation_days = BurstCalls + 1]
                    ELSE InitSession]
    /\ req = [cl \in Clients |-> "idle"]
    /\ resp = Started("a1")
    /\ threads = [u \in Uuids |->
                    IF u = 1 THEN NewThread(BurstVariables) ELSE NoThreadObject]
    /\ process_pool = [p \in Procs |-> {}]
    /\ cache = EmptyCache
    /\ interval = [cl \in Clients |-> IF cl = "a1" THEN NewInterval ELSE NoInterval]

TickFine ==
    /\ now < MaxTime
    /\ now' = now + 1
    /\ resp' = NoResponse
    /\ UNCHANGED <<restrict, session, req, threads, process_pool, cache>>

NextThrottle ==
    \/ TickFine /\ UNCHANGED interval
    \/ \E u \in Uuids : WorkerBegin(u) /\ UNCHANGED interval
    \/ \E u \in Uuids : SimStep(u) /\ UNCHANGED interval
    \/ \E u \in Uuids : SimReturn(u) /\ UNCHANGED interval
    \/ \E u \in Uuids : WorkerFinish(u) /\ UNCHANGED interval
    \/ \E u \in Uuids : WorkerCleanup(u) /\ UNCHANGED interval

SpecThrottle == InitThrottle /\ [][NextThrottle]_vars

----------------------------------------------------------------------------
(* The workers are processes of the operating system: one that can take a   *)
(* step of run is scheduled, and its simulation comes to an end (it         *)
(* returns, is interrupted, or fails).                                      *)

WorkerStep(u) ==
    /\ \/ WorkerBegin(u)
       \/ SimStep(u)
       \/ SimReturn(u)
       \/ SimInterrupt(u)
       \/ SimCrash(u)
       \/ WorkerFinish(u)
       \/ WorkerCleanup(u)
    /\ UNCHANGED interval

(* One caller, who starts a run and may start another, and the workers.     *)
NextSolo ==
    \/ \E t \in ClockTimes : Tick(t) /\ UNCHANGED interval
    \/ \E n \in Clicks, sd \in Days : RunBegin("a1", n, sd) /\ UNCHANGED interval
    \/ RunSpawn("a1") /\ UNCHANGED interval
    \/ update_simulation_results("a1") /\ UNCHANGED interval
    \/ \E u \in Uuids : WorkerBegin(u) /\ UNCHANGED interval
    \/ \E u \in Uuids : SimStep(u) /\ UNCHANGED interval
    \/ \E u \in Uuids : SimReturn(u) /\ UNCHANGED interval
    \/ \E u \in Uuids : SimInterrupt(u) /\ UNCHANGED interval
    \/ \E u \in Uuids : SimCrash(u) /\ UNCHANGED interval
    \/ \E u \in Uuids : WorkerFinish(u) /\ UNCHANGED interval
    \/ \E u \in Uuids : WorkerCleanup(u) /\ UNCHANGED interval

SpecFair == Init /\ [][NextSolo]_vars /\ \A u \in Uuids : WF_vars(WorkerStep(u))

----------------------------------------------------------------------------
(* One caller with its page: the responses to its run requests put the      *)
(* interval component on the page or take it away, and the polls are the    *)
(* firings of that component.                                               *)

(* The component of cl once the response of the step taken is rendered:     *)
(* "started" brings a new one, a result or the busy message replaces the    *)
(* container that held it.                                                  *)
Rendered(cl) ==
    IF resp'.to = cl /\ resp'.kind = "started" THEN NewInterval
    ELSE IF resp'.to = cl /\ resp'.kind \in {"reused", "busy"} THEN NoInterval
    ELSE interval[cl]

Render == interval' = [cl \in Clients |-> Rendered(cl)]

(* IntervalFires of a component that goes on firing when disabled.          *)
IntervalFiresWhenDisabled(cl) ==
    /\ interval[cl].mounted
    /\ interval[cl].n_intervals < MaxIntervals
    /\ update_simulation_results(cl)
    /\ interval' = [interval EXCEPT
                      ![cl].n_intervals = @ + 1,
                      ![cl].disabled = IF resp'.kind = "results" THEN resp'.disabled ELSE @]

(* The component fires: n_intervals counts it, update_simulation_results    *)
(* runs, and what it returns for 'disabled' is set on the component (a      *)
(* PreventUpdate sets nothing). It fires max_intervals times at most, and   *)
(* not when disabled.                                                       *)
IntervalFires(cl) ==
    /\ interval[cl].mounted
    /\ ~interval[cl].disabled
    /\ interval[cl].n_intervals < MaxIntervals
    /\ update_simulation_results(cl)
    /\ interval' = [interval EXCEPT
                      ![cl].n_intervals = @ + 1,
                      ![cl].disabled = IF resp'.kind = "results" THEN resp'.disabled ELSE @]

(* The clock is read at the start and when what was written at the start   *)
(* has expired.                                                             *)
PollClockTimes == {0, Throttle + ResultsTimeout}

NextPoll ==
    \/ \E t \in PollClockTimes : Tick(t) /\ Render
    \/ \E n \in Clicks, sd \in Days : RunBegin("a1", n, sd) /\ Render
    \/ RunSpawn("a1") /\ Render
    \/ IntervalFires("a1")
    \/ \E u \in Uuids : WorkerBegin(u) /\ Render
    \/ \E u \in Uuids : SimStep(u) /\ Render
    \/ \E u \in Uuids : SimReturn(u) /\ Render
    \/ \E u \in Uuids : SimInterrupt(u) /\ Render
    \/ \E u \in Uuids : SimCrash(u) /\ Render
    \/ \E u \in Uuids : WorkerFinish(u) /\ Render
    \/ \E u \in Uuids : WorkerCleanup(u) /\ Render

SpecPoll == Init /\ [][NextPoll]_vars

----------------------------------------------------------------------------
(* Two connections of one browser session: the server handles their         *)
(* requests concurrently, so the two halves of one run request can be       *)
(* separated by the steps of another request of the same session.           *)

SessionClients(s) == {cl \in Clients : SessionOf(cl) = s}

NextRace ==
    \/ \E t \in ClockTimes : Tick(t) /\ UNCHANGED interval
    \/ \E cl \in SessionClients("A"), n \in Clicks, sd \in Days :
          RunBegin(cl, n, sd) /\ UNCHANGED interval
    \/ \E cl \in SessionClients("A") : RunSpawn(cl) /\ UNCHANGED interval
    \/ \E cl \in SessionClients("A") : update_simulation_results(cl) /\ UNCHANGED interval
    \/ \E u \in Uuids : WorkerBegin(u) /\ UNCHANGED interval
    \/ \E u \in Uuids : SimStep(u) /\ UNCHANGED interval
    \/ \E u \in Uuids : SimReturn(u) /\ UNCHANGED interval
    \/ \E u \in Uuids : SimInterrupt(u) /\ UNCHANGED interval
    \/ \E u \in Uuids : SimCrash(u) /\ UNCHANGED interval
    \/ \E u \in Uuids : WorkerFinish(u) /\ UNCHANGED interval
    \/ \E u \in Uuids : WorkerCleanup(u) /\ UNCHANGED interval

SpecRace == Init /\ [][NextRace]_vars

----------------------------------------------------------------------------
(* Properties *)

Unexpired(key) == cache[key] # <<>> /\ now < cache[key][2]
Binding(cl) == session[SessionOf(cl)].thread_id

(* The step taken is the first half of a run request of cl (RunBegin is the *)
(* one action that answers "reused" or "busy" or moves a request to         *)
(* "spawn"), its second half, or a poll of cl.                              *)
RunRequest(cl) ==
    /\ req[cl] = "idle"
    /\ \/ resp'.kind \in {"reused", "busy"} /\ resp'.to = cl
       \/ req'[cl] = "spawn"
SpawnStep(cl) == req[cl] = "spawn" /\ req'[cl] = "idle"
PollRequest(cl) == resp'.kind \in {"prevent_update", "results"} /\ resp'.to = cl

(* The results key of the variables the run request of cl has set. *)
RequestedKey(cl) == ResultsKey(Fingerprint(VariablesOf(session'[SessionOf(cl)])))

(* C1: a run request that finds an unexpired results entry for the          *)
(* fingerprint of the caller's variables returns that entry's dataset and   *)
(* spawns nothing: the thread objects, the caller's thread_id and the kill  *)
(* signals are as before, and no spawn is pending.                          *)
C1_Reuse ==
    [][\A cl \in Clients :
        (RunRequest(cl) /\ Unexpired(RequestedKey(cl))) =>
            /\ resp' = Reused(cl, cache[RequestedKey(cl)][1])
            /\ threads' = threads
            /\ session'[SessionOf(cl)].thread_id = Binding(cl)
            /\ \A u \in Uuids : cache'[KillKey(u)] = cache[KillKey(u)]
            /\ req'[cl] = "idle"]_vars

(* b1, who never started a run, was given the result of the one job.        *)
C1_Witness ==
    /\ resp.kind = "reused" /\ resp.to = "b1"
    /\ session["B"].thread_id = NoThread
    /\ Cardinality(Created) = 1
    /\ ~restrict

(* C2: a run request that finds no cached result while computation is not   *)
(* restricted first writes the kill signal of the job the session is bound  *)
(* to (if any) and creates nothing yet; its second half creates exactly one *)
(* thread object, started, with a copy of the session's variables, binds    *)
(* the session to its uuid and answers "started" with interval 500 and      *)
(* max_intervals 60 and no dataset.                                         *)
C2_Launch ==
    [][\A cl \in Clients :
        /\ (~restrict /\ RunRequest(cl) /\ ~Unexpired(RequestedKey(cl))) =>
                /\ Binding(cl) # NoThread =>
                       cache'[KillKey(Binding(cl))] = <<TRUE, now + DefaultTimeout>>
                /\ threads' = threads
                /\ req'[cl] = "spawn"
                /\ resp'.kind = "none"
        /\ SpawnStep(cl) =>
                /\ \E u \in Uuids :
                       /\ threads[u].pc = "unborn"
                       /\ threads'[u].pc = "started"
                       /\ threads'[u].variables = VariablesOf(session[SessionOf(cl)])
                       /\ session'[SessionOf(cl)].thread_id = u
                       /\ \A w \in Uuids \ {u} : threads'[w] = threads[w]
                /\ resp'.kind = "started" /\ resp'.to = cl /\ resp'.df = <<>>
                /\ resp'.interval = 500 /\ resp'.max_intervals = 60
                /\ cache' = cache
                /\ req'[cl] = "idle"]_vars

(* a1 has started a second run: job 1 has its kill signal, job 2 is bound.  *)
C2_Witness ==
    /\ resp.kind = "started" /\ resp.to = "a1"
    /\ session["A"].thread_id = 2
    /\ cache[KillKey(1)] # <<>>
    /\ threads[2].pc = "started"
    /\ threads[2].variables = VariablesOf(session["A"])

(* C3: under RESTRICT_TO_PRESET_SCENARIOS a run request that finds no       *)
(* cached result answers "busy", creates nothing, writes nothing to the     *)
(* cache and leaves the thread_id; one that finds a cached result still     *)
(* returns it.                                                              *)
C3_Restricted ==
    [][\A cl \in Clients :
        (restrict /\ RunRequest(cl)) =>
            IF Unexpired(RequestedKey(cl))
            THEN resp' = Reused(cl, cache[RequestedKey(cl)][1])
            ELSE /\ resp' = ServiceBusy(cl)
                 /\ threads' = threads
                 /\ cache' = cache
                 /\ session'[SessionOf(cl)].thread_id = Binding(cl)
                 /\ req'[cl] = "idle"]_vars

(* A restricted server has returned the cached result of the preset.        *)
C3_Witness ==
    /\ restrict
    /\ resp.kind = "reused"
    /\ Created = {}

(* C4: a poll of a caller whose session has no thread_id is declined        *)
(* whatever the cache holds, and changes nothing.                           *)
C4_PollWithoutBinding ==
    [][\A cl \in Clients :
        (Binding(cl) = NoThread /\ PollRequest(cl)) =>
            /\ resp' = PreventUpdate(cl)
            /\ UNCHANGED <<now, restrict, session, req, threads, process_pool, cache>>]_vars

(* b1 has no job and was declined although the results of its fingerprint   *)
(* are in the cache and marked finished.                                    *)
C4_Witness ==
    /\ resp = PreventUpdate("b1")
    /\ session["B"].thread_id = NoThread
    /\ Unexpired(ResultsKey(Fingerprint(VariablesOf(session["B"]))))
    /\ Unexpired(FinishedKey(Fingerprint(VariablesOf(session["B"]))))

(* C5: a poll of a caller with a thread_id is declined when the results     *)
(* entry of its fingerprint is absent, finished or not; otherwise it        *)
(* presents the dataset stored there, with the polling disabled exactly     *)
(* when the finished entry is present and true.                             *)
C5_PollResult ==
    [][\A cl \in Clients :
        LET func_hash == Fingerprint(VariablesOf(session[SessionOf(cl)]))
        IN  (Binding(cl) # NoThread /\ PollRequest(cl)) =>
                IF Unexpired(ResultsKey(func_hash))
                THEN /\ resp'.kind = "results" /\ resp'.to = cl
                     /\ resp'.df = <<cache[ResultsKey(func_hash)][1]>>
                     /\ resp'.disabled =
                          (Unexpired(FinishedKey(func_hash))
                             /\ cache[FinishedKey(func_hash)][1] = TRUE)
                ELSE resp' = PreventUpdate(cl)]_vars

(* a1 is bound to a job, the finished flag is set, the results are gone,    *)
(* and the poll was declined.                                               *)
C5_Witness ==
    /\ resp = PreventUpdate("a1")
    /\ session["A"].thread_id # NoThread
    /\ Unexpired(FinishedKey(Fingerprint(VariablesOf(session["A"]))))
    /\ ~Unexpired(ResultsKey(Fingerprint(VariablesOf(session["A"]))))

(* The step taken is a step_callback(df) call of the simulation of u, the   *)
(* step_callback(df, force=True) after its return, its interruption, or the *)
(* finished write of u.                                                     *)
StepCall(u) ==
    /\ threads[u].pc = "simulating" /\ threads'[u].pc = "simulating"
    /\ threads'[u].day = threads[u].day + 1
ForcedCall(u) == threads[u].pc = "simulating" /\ threads'[u].exit = "returned"
InterruptStep(u) == threads[u].pc = "simulating" /\ threads'[u].exit = "interrupted"
FinishStep(u) == threads[u].pc = "finishing" /\ threads'[u].pc = "cleanup"

(* What a step_callback(df, force) call of u did, by the statement of C6:   *)
(* it wrote exactly if force, or nothing was written before, or more than   *)
(* 0.5 s have passed since the last write.                                  *)
CallbackEffect(u, df, force) ==
    LET th == threads[u]
        due == force \/ th.writes = 0 \/ now - th.last_results > 5
    IN  /\ IF due
           THEN /\ threads'[u].writes = th.writes + 1
                /\ cache'[ResultsKey(th.func_hash)] = <<df, now + 300>>
                /\ threads'[u].last_results = now
           ELSE /\ threads'[u].writes = th.writes
                /\ cache' = cache
                /\ threads'[u].last_results = th.last_results
        /\ threads'[u].returned = <<TRUE>>

(* C6: step_callback(df, force) writes the dataset to the results key if    *)
(* and only if force is set, or this worker has written nothing yet, or     *)
(* more than 0.5 s have passed since its last write; last_results moves     *)
(* only on a write; the callback returns True.                              *)
C6_ThrottleGuard ==
    [][\A u \in Uuids :
        /\ StepCall(u) =>
             CallbackEffect(u, Snapshot(threads[u].variables, threads[u].day + 1), FALSE)
        /\ ForcedCall(u) =>
             CallbackEffect(u, FinalResult(threads[u].variables), TRUE)]_vars

(* The first call wrote, later ones were turned down, and one wrote after   *)
(* more than 0.5 s.                                                         *)
C6_Witness ==
    /\ threads[1].pc = "simulating"
    /\ threads[1].day >= 3
    /\ threads[1].writes = 2
    /\ threads[1].forced = 0
    /\ threads[1].last_results > 5

(* C7: as long as all the calls of a simulation (up to BurstCalls of them)  *)
(* fall within 200 ms, one dataset has been written, that of the first      *)
(* call; and the forced call after the simulation's return writes exactly   *)
(* once more, however short the time since the last write.                  *)
C7_Burst ==
    \A u \in Uuids :
        (/\ threads[u].pc = "simulating"
         /\ threads[u].day >= 1 /\ threads[u].day <= BurstCalls
         /\ now <= BurstWindow) =>
            /\ threads[u].writes = 1
            /\ threads[u].writes <= ((BurstWindow + 4) \div 5) + 1
            /\ threads[u].written = <<Snapshot(threads[u].variables, 1)>>
            /\ cache[ResultsKey(threads[u].func_hash)][1] = Snapshot(threads[u].variables, 1)

C7_ThrottleBound ==
    /\ []C7_Burst
    /\ [][\A u \in Uuids :
            ForcedCall(u) =>
                /\ threads'[u].writes = threads[u].writes + 1
                /\ threads'[u].forced = threads[u].forced + 1
                /\ cache'[ResultsKey(threads[u].func_hash)] =
                       <<FinalResult(threads[u].variables), now + 300>>]_vars

(* BurstCalls calls and the forced one, all at the instant of the start:    *)
(* two writes.                                                              *)
C7_Witness ==
    /\ threads[1].day = BurstCalls + 1
    /\ threads[1].exit = "returned"
    /\ now = 0
    /\ threads[1].writes = 2
    /\ threads[1].forced = 1

(* C8: when the simulation returns, the worker publishes the final result   *)
(* once with force, and only then writes the finished flag; it writes no    *)
(* results afterwards, so that when it sets the flag the last dataset it    *)
(* wrote is the final result.                                               *)
C8_Returned ==
    \A u \in Uuids :
        threads[u].exit = "returned" =>
            /\ threads[u].pc \in {"finishing", "cleanup", "exited"}
            /\ threads[u].forced = 1
            /\ threads[u].written = <<FinalResult(threads[u].variables)>>

C8_CompletionOrder ==
    /\ []C8_Returned
    /\ [][\A u \in Uuids :
            LET h == threads[u].func_hash
            IN  /\ ForcedCall(u) =>
                     /\ cache'[ResultsKey(h)] =
                            <<FinalResult(threads[u].variables), now + 300>>
                     /\ cache'[FinishedKey(h)] = cache[FinishedKey(h)]
                /\ (FinishStep(u) /\ threads[u].exit = "returned") =>
                     /\ cache'[FinishedKey(h)] = <<TRUE, now + DefaultTimeout>>
                     /\ cache'[ResultsKey(h)] = cache[ResultsKey(h)]
                     /\ threads'[u].writes = threads[u].writes
                /\ threads[u].pc \in {"cleanup", "exited"} =>
                     /\ threads'[u].writes = threads[u].writes
                     /\ threads'[u].written = threads[u].written]_vars

(* A worker has published twice, the second time the final result with      *)
(* force, and has set the finished flag.                                    *)
C8_Witness ==
    \E u \in Uuids :
        /\ threads[u].exit = "returned" /\ threads[u].pc = "cleanup"
        /\ threads[u].writes = 2 /\ threads[u].forced = 1
        /\ Unexpired(FinishedKey(threads[u].func_hash))
        /\ cache[ResultsKey(threads[u].func_hash)][1] = FinalResult(threads[u].variables)

(* C9: a worker whose simulation raised ExecutionInterrupted publishes      *)
(* nothing more: no forced write, no write at all after the interruption,   *)
(* its last dataset stays the last throttled one (none if it wrote none);   *)
(* it goes on to the end of run and exits without an error.                 *)
C9_Interrupted ==
    \A u \in Uuids :
        threads[u].exit = "interrupted" =>
            /\ threads[u].pc \in {"finishing", "cleanup", "exited"}
            /\ threads[u].forced = 0
            /\ (threads[u].writes = 0) = (threads[u].written = <<>>)
            /\ threads[u].writes <= threads[u].day

C9_Cancellation ==
    /\ []C9_Interrupted
    /\ [][\A u \in Uuids :
            /\ InterruptStep(u) =>
                 /\ cache' = cache
                 /\ threads'[u].writes = threads[u].writes
                 /\ threads'[u].written = threads[u].written
                 /\ threads'[u].pc = "finishing"
            /\ threads[u].exit = "interrupted" =>
                 /\ threads'[u].exit = "interrupted"
                 /\ threads'[u].writes = threads[u].writes
                 /\ threads'[u].written = threads[u].written
                 /\ threads'[u] # threads[u] =>
                      cache'[ResultsKey(threads[u].func_hash)] =
                          cache[ResultsKey(threads[u].func_hash)]]_vars

(* A cancelled worker has exited; the one dataset it wrote, of day 1, is    *)
(* not the final result.                                                    *)
C9_Witness ==
    \E u \in Uuids :
        /\ threads[u].exit = "interrupted" /\ threads[u].pc = "exited"
        /\ threads[u].writes = 1
        /\ threads[u].written = <<Snapshot(threads[u].variables, 1)>>
        /\ ~IsFinal(threads[u].written[1])

(* C10: a worker is in the process_pool of its process from the beginning   *)
(* of run on, and is out of it whenever run has exited, whichever way.      *)
C10_RegistryCleanup ==
    \A u \in Uuids :
        /\ threads[u].pc \in {"simulating", "finishing", "cleanup"} => u \in process_pool[u]
        /\ threads[u].pc = "exited" => u \notin process_pool[u]


(* C11: when a run request of a caller bound to job A has taken the spawn   *)
(* path, the kill signal of A is in the cache, written by that request, and *)
(* it is still there, and A is not yet replaced as the binding, when the    *)
(* new job B is created; and every worker that was started and does not     *)
(* fail writes the finished flag of its fingerprint, whatever the other     *)
(* worker does.                                                             *)
C11_KillThenFinish ==
    /\ [][\A cl \in Clients :
            /\ (RunRequest(cl) /\ req'[cl] = "spawn" /\ Binding(cl) # NoThread) =>
                   /\ cache'[KillKey(Binding(cl))] = <<TRUE, now + DefaultTimeout>>
                   /\ session'[SessionOf(cl)].thread_id = Binding(cl)
            /\ (SpawnStep(cl) /\ Binding(cl) # NoThread) =>
                   /\ cache'[KillKey(Binding(cl))] # <<>>
                   /\ cache'[KillKey(Binding(cl))][1] = TRUE
                   /\ session'[SessionOf(cl)].thread_id # Binding(cl)]_vars
    /\ \A u \in Uuids :
           (threads[u].pc = "started") ~>
               \/ threads[u].exit = "crashed"
               \/ /\ threads[u].pc = "cleanup"
                  /\ Unexpired(FinishedKey(threads[u].func_hash))
                  /\ cache[FinishedKey(threads[u].func_hash)][1] = TRUE

(* a1 started run 1 and then run 2: run 1 has its kill signal and goes on   *)
(* simulating, run 2 was interrupted by nobody and has set its flag.        *)
C11_Witness ==
    /\ session["A"].thread_id = 2
    /\ Unexpired(KillKey(1))
    /\ threads[1].pc = "simulating"
    /\ threads[2].pc = "cleanup" /\ threads[2].exit = "returned"
    /\ Unexpired(FinishedKey(threads[2].func_hash))
    /\ threads[2].func_hash # threads[1].func_hash

(* C12: a caller whose poll has just presented the final result of its job  *)
(* with the polling disabled, and who at once requests a run with the same  *)
(* parameters, is given that final result again; no thread object is        *)
(* created, no spawn is pending, no kill signal is written and the binding  *)
(* stays.                                                                   *)
C12_RerunReuses ==
    [][\A cl \in Clients :
        LET sess == session[SessionOf(cl)]
            final == FinalResult(VariablesOf(sess))
        IN  (/\ resp = Results(cl, final, TRUE)
             /\ RunRequest(cl)
             /\ VariablesOf(session'[SessionOf(cl)]) = VariablesOf(sess)) =>
                /\ sess.thread_id # NoThread
                /\ resp' = Reused(cl, final)
                /\ threads' = threads
                /\ Cardinality(Spawning)' = Cardinality(Spawning)
                /\ cache' = cache
                /\ session' = session]_vars

(* After the one run of a1 returned, a1 asked again and was given its       *)
(* final result; there is still one job.                                    *)
C12_Witness ==
    /\ resp = Reused("a1", FinalResult(VariablesOf(session["A"])))
    /\ session["A"].thread_id = 1
    /\ threads[1].exit = "returned" /\ threads[1].pc \in {"cleanup", "exited"}
    /\ threads[1].variables = VariablesOf(session["A"])
    /\ Created = {1}
    /\ Unexpired(FinishedKey(threads[1].func_hash))

(* The other workers created with the fingerprint of worker u. *)
SameFingerprint(u) ==
    {w \in Created \ {u} : Fingerprint(threads[w].variables) = threads[u].func_hash}

(* A worker whose simulation failed has exited and, no other worker having  *)
(* its fingerprint, the finished key of its fingerprint was never written;  *)
(* the component of a caller bound to it with that fingerprint is not       *)
(* disabled.                                                                *)
C13_Crashed ==
    \A u \in Uuids :
        (threads[u].exit = "crashed" /\ SameFingerprint(u) = {}) =>
            /\ threads[u].pc = "exited"
            /\ cache[FinishedKey(threads[u].func_hash)] = <<>>
            /\ \A cl \in Clients :
                   (/\ Binding(cl) = u
                    /\ Fingerprint(VariablesOf(session[SessionOf(cl)])) = threads[u].func_hash
                    /\ interval[cl].mounted) => ~interval[cl].disabled

(* C13: a worker whose simulation failed with another failure than          *)
(* ExecutionInterrupted never writes the finished key; while no other       *)
(* worker has its fingerprint, no poll of that fingerprint reports          *)
(* disabled=True, and the component of the caller goes on firing until      *)
(* n_intervals is max_intervals.                                            *)
C13_CrashNeverFinished ==
    /\ []C13_Crashed
    /\ [][\A u \in Uuids :
            /\ threads[u].exit = "crashed" =>
                   /\ threads'[u] = threads[u]
                   /\ SameFingerprint(u) = {} =>
                          cache'[FinishedKey(threads[u].func_hash)] = <<>>
            /\ \A cl \in Clients :
                   (/\ threads[u].exit = "crashed" /\ SameFingerprint(u) = {}
                    /\ PollRequest(cl)
                    /\ Fingerprint(VariablesOf(session[SessionOf(cl)])) = threads[u].func_hash) =>
                       /\ resp'.disabled = FALSE
                       /\ interval'[cl].disabled = FALSE
                       /\ interval'[cl].n_intervals = interval[cl].n_intervals + 1]_vars

(* The one worker failed after its first snapshot; the sixtieth poll has    *)
(* presented that snapshot, not done.                                       *)
C13_Witness ==
    /\ threads[1].exit = "crashed" /\ Created = {1}
    /\ session["A"].thread_id = 1
    /\ resp.kind = "results" /\ resp.to = "a1" /\ ~resp.disabled
    /\ ~IsFinal(resp.df[1])
    /\ interval["a1"].n_intervals = MaxIntervals
    /\ ~interval["a1"].disabled

(* The component of a client fires at most max_intervals times, and while   *)
(* it is on the page with firings left it cannot fire only if disabled.     *)
C14_Budget ==
    \A cl \in Clients :
        /\ interval[cl].n_intervals <= 60
        /\ (interval[cl].mounted /\ interval[cl].n_intervals < 60
               /\ ~ENABLED IntervalFires(cl)) => interval[cl].disabled
        /\ interval[cl].n_intervals = 60 => ~ENABLED IntervalFires(cl)

LiveWorkers(h) ==
    {u \in Created : threads[u].pc # "exited" /\ Fingerprint(threads[u].variables) = h}

(* C15: nothing but the results entry keeps a run request from the spawn    *)
(* path: with computation not restricted and no unexpired results entry of  *)
(* its fingerprint, a request goes on to create a worker even while a       *)
(* worker with that fingerprint is live, and its second half creates one;   *)
(* so two workers of one fingerprint can be live together.                  *)
C15_DuplicateSpawn ==
    [][\A cl \in Clients :
        /\ (/\ RunRequest(cl) /\ ~restrict
            /\ ~Unexpired(RequestedKey(cl))
            /\ LiveWorkers(RequestedKey(cl)[1]) # {}) =>
                /\ req'[cl] = "spawn"
                /\ resp'.kind = "none"
        /\ (/\ SpawnStep(cl)
            /\ LiveWorkers(Fingerprint(VariablesOf(session[SessionOf(cl)]))) # {}) =>
                Cardinality(LiveWorkers(Fingerprint(VariablesOf(session[SessionOf(cl)])))')
                    = Cardinality(LiveWorkers(Fingerprint(VariablesOf(session[SessionOf(cl)])))) + 1]_vars

(* a1 and b1 asked for the same computation; both were given a worker, both *)
(* workers simulate, neither has written, neither has a kill signal.        *)
C15_Witness ==
    /\ session["A"].thread_id # NoThread /\ session["B"].thread_id # NoThread
    /\ session["A"].thread_id # session["B"].thread_id
    /\ \A u \in Uuids : threads[u].pc = "simulating" /\ threads[u].writes = 0
    /\ threads[1].func_hash = threads[2].func_hash
    /\ cache[ResultsKey(threads[1].func_hash)] = <<>>
    /\ \A u \in Uuids : cache[KillKey(u)] = <<>>

(* The run request of some client of session s is between its two halves. *)
MidRequest(s) == \E cl \in Spawning : SessionOf(cl) = s

(* No two sessions are bound to one job, and the job a session is bound to  *)
(* has no kill signal unless a run request of that session is under way.    *)
C16_BoundNotKilled ==
    /\ \A s, t \in Sessions :
           (s # t /\ session[s].thread_id # NoThread) =>
               session[s].thread_id # session[t].thread_id
    /\ \A s \in Sessions :
           (session[s].thread_id # NoThread /\ ~MidRequest(s)) =>
               cache[KillKey(session[s].thread_id)] = <<>>

(* C16: the only kill signal a run request writes is that of the job its    *)
(* own session was bound to when it was handled: never that of a job        *)
(* another session is bound to, never that of the job it creates; no other  *)
(* step writes a kill signal. So with the run requests of one session       *)
(* handled one after the other, the job a session is bound to has no kill   *)
(* signal.                                                                  *)
C16_SessionAffinity ==
    /\ []C16_BoundNotKilled
    /\ [][\A u \in Uuids :
            cache'[KillKey(u)] # cache[KillKey(u)] =>
                \E cl \in Clients :
                    /\ RunRequest(cl) /\ req'[cl] = "spawn"
                    /\ u = Binding(cl)
                    /\ \A s \in Sessions \ {SessionOf(cl)} : session[s].thread_id # u
                    /\ threads[u].pc # "unborn"
                    /\ threads' = threads]_vars

(* a1 has replaced job 1 by job 2 while b1 has none: job 1 has the kill     *)
(* signal, job 2, to which a1 is bound, has none.                           *)
C16_Witness ==
    /\ session["A"].thread_id = 2 /\ session["B"].thread_id = NoThread
    /\ req["a1"] = "idle"
    /\ Unexpired(KillKey(1))
    /\ cache[KillKey(2)] = <<>>
    /\ threads[2].pc = "simulating"

(* The workers ever created with fingerprint h. *)
Writers(h) == {u \in Created : Fingerprint(threads[u].variables) = h}

(* C17: while one worker at most has been created with a fingerprint, a     *)
(* write to the results key of that fingerprint over an unexpired entry     *)
(* puts there a dataset of the same run that is at least as far in the      *)
(* simulation; and a poll presents the entry as it is in the cache at that  *)
(* moment. So successive polls never go back.                               *)
C17_OrderedProgress ==
    [][/\ \A h \in Fingerprints :
            (/\ cache'[ResultsKey(h)] # cache[ResultsKey(h)]
             /\ Unexpired(ResultsKey(h))
             /\ Cardinality(Writers(h)') <= 1) =>
                /\ cache'[ResultsKey(h)][1].variables = cache[ResultsKey(h)][1].variables
                /\ cache'[ResultsKey(h)][1].day >= cache[ResultsKey(h)][1].day
                /\ cache'[ResultsKey(h)][2] >= cache[ResultsKey(h)][2]
       /\ \A cl \in Clients :
            (PollRequest(cl) /\ resp'.kind = "results") =>
                /\ resp'.df = <<cache[ResultsKey(Fingerprint(
                                    VariablesOf(session[SessionOf(cl)])))][1]>>
                /\ cache' = cache]_vars

(* The only worker of its fingerprint has written the snapshot of day 1 and *)
(* then, over it, the final result.                                         *)
C17_Witness ==
    \E u \in Uuids :
        /\ Writers(threads[u].func_hash) = {u}
        /\ threads[u].writes = 2
        /\ threads[u].day = 2
        /\ Unexpired(ResultsKey(threads[u].func_hash))
        /\ cache[ResultsKey(threads[u].func_hash)][1].day = 2

(* The cache at time t without its expired entries. *)
Purged(c, t) == [k \in CacheKeys |-> IF c[k] # <<>> /\ t < c[k][2] THEN c[k] ELSE <<>>]

(* What a poll of cl answers when it is handled with the cache c. *)
PollAnswer(cl, c) ==
    LET h == Fingerprint(VariablesOf(session[SessionOf(cl)]))
    IN  IF Binding(cl) = NoThread \/ c[ResultsKey(h)] = <<>>
        THEN PreventUpdate(cl)
        ELSE Results(cl, c[ResultsKey(h)][1],
                     c[FinishedKey(h)] # <<>> /\ c[FinishedKey(h)][1] = TRUE)

C19_PollReadOnly ==
    [][/\ \A cl \in Clients :
            /\ PollRequest(cl) =>
                   UNCHANGED <<session, cache, threads, process_pool, req>>
            /\ (RunRequest(cl) /\ resp'.kind \in {"reused", "busy"}) =>
                   /\ session'[SessionOf(cl)].thread_id = Binding(cl)
                   /\ process_pool' = process_pool
       /\ \A s \in Sessions :
            session'[s].thread_id # session[s].thread_id =>
                \E cl \in Clients :
                    SessionOf(cl) = s /\ SpawnStep(cl) /\ resp' = Started(cl)
       /\ \A p \in Procs :
            process_pool'[p] # process_pool[p] =>
                /\ p \in Uuids
                /\ \/ threads[p].pc = "started" /\ threads'[p].pc = "simulating"
                      /\ process_pool'[p] = process_pool[p] \cup {p}
                   \/ threads[p].pc = "cleanup" /\ threads'[p].pc = "exited"
                      /\ process_pool'[p] = process_pool[p] \ {p}
                /\ \A q \in Procs \ {p} : process_pool'[q] = process_pool[q]
                /\ resp'.kind = "none"]_vars

(* A poll of a1 has presented the final result, done, while the worker is   *)
(* still registered: nothing but the response has changed.                  *)
C19_Witness ==
    /\ resp = Results("a1", FinalResult(VariablesOf(session["A"])), TRUE)
    /\ session["A"].thread_id = 1
    /\ threads[1].pc = "cleanup"
    /\ process_pool[1] = {1}
    /\ process_pool[MainProcess] = {}

(* C20: a poll that reports the computation finished presents the final     *)
(* result of the simulation for the fingerprint, never a snapshot of an     *)
(* earlier day.                                                             *)
C20_DoneImpliesFinal ==
    (resp.kind = "results" /\ resp.disabled) => IsFinal(resp.df[1])

(* C21: every worker spawned for the caller of session A is the session's   *)
(* current binding or has had its kill signal written, also when two run    *)
(* requests of the session are handled concurrently. (Under SpecRace every  *)
(* worker is spawned for session A.)                                        *)
C21_NoOrphan ==
    \A u \in Created :
        session["A"].thread_id = u \/ cache[KillKey(u)] # <<>>

(* The two cache keys of the fingerprint of the variables u was created     *)
(* with, and the steps of u: those that change the object of a created u.   *)
OwnKeys(u) ==
    {ResultsKey(Fingerprint(threads[u].variables)),
     FinishedKey(Fingerprint(threads[u].variables))}
WorkerActs(u) == u \in Created /\ threads'[u] # threads[u]

(* C22: a worker is created with the variables its caller's session has at  *)
(* that moment and keeps them, whatever the session becomes; a step of the  *)
(* worker changes no cache entry but the results and the finished key of    *)
(* the fingerprint of those variables: no kill key, and no key of a worker  *)
(* with another fingerprint.                                                *)
C22_DisjointKeys ==
    [][\A u \in Uuids :
          /\ (u \notin Created /\ threads'[u] # threads[u]) =>
                \E cl \in Clients :
                    /\ SpawnStep(cl)
                    /\ threads'[u].variables = VariablesOf(session[SessionOf(cl)])
          /\ u \in Created => threads'[u].variables = threads[u].variables
          /\ WorkerActs(u) =>
                /\ \A k \in CacheKeys : cache'[k] # cache[k] => k \in OwnKeys(u)
                /\ \A w \in Created :
                      Fingerprint(threads[w].variables) # Fingerprint(threads[u].variables) =>
                          \A k \in OwnKeys(w) : cache'[k] = cache[k]]_vars

(* Two workers with different fingerprints have each left the final result  *)
(* and the finished flag under their own keys, no kill key was written, and *)
(* the session bound to worker 1 has other variables than worker 1 was      *)
(* created with.                                                            *)
C22_Witness ==
    /\ Created = {1, 2}
    /\ Fingerprint(threads[1].variables) # Fingerprint(threads[2].variables)
    /\ \A u \in Uuids :
          /\ threads[u].exit = "returned"
          /\ threads[u].pc = "exited"
          /\ cache[ResultsKey(Fingerprint(threads[u].variables))][1]
                = FinalResult(threads[u].variables)
          /\ cache[FinishedKey(Fingerprint(threads[u].variables))] # <<>>
          /\ cache[KillKey(u)] = <<>>
    /\ session["A"].thread_id = 1
    /\ VariablesOf(session["A"]) # threads[1].variables

====
